---- MODULE Spec2Model ----
(***************************************************************************)
(* MiTiendita: categorias, productos y ventas sobre una base SQLite.       *)
(* Each table is a function from primary key to row.  Every HTTP handler   *)
(* of src/routers is one action; agregar_item_venta is also modelled step  *)
(* by step (its SELECTs and its COMMIT) for requests that interleave.      *)
(***************************************************************************)
EXTENDS Integers, FiniteSets, Sequences, TLC

VARIABLES
    categorias,  \* table categoria: categoria_id -> [nombre, activo, fecha_actualizacion]
    productos,   \* table producto: producto_id -> [nombre, activo, precio, stock,
                 \* categoria_id, fecha_actualizacion]
    ventas,      \* table venta: venta_id -> [total]
    items,       \* table ventaitem: id -> [venta_id, producto_id, cantidad, precio_unitario]
    peticiones,  \* the requests in flight (agregar_item_venta, and the creations
                 \* served side by side), each with what it has read
    respuesta,   \* the answer to the last request answered
    libro,       \* history: per product, the stock last set on it by the catalogue
                 \* (base) and the quantities sold from it since (vendido)
    ahora        \* the clock the handlers read with datetime.now()/utcnow()

vars == <<categorias, productos, ventas, items, peticiones, respuesta, libro, ahora>>
tablas == <<categorias, productos, ventas, items>>

(* ------------------------------ bounds -------------------------------- *)
MaxCategorias == 2
MaxProductos == 2
MaxVentas == 2
MaxItems == 2
MaxStock == 2
MaxPeticiones == 2
MaxReloj == 2

(* --------------------------- value domains ---------------------------- *)
\* Optional[int]: None is the empty tuple, a value n is <<n>>.
Nulo == << >>
Algun(n) == <<n>>
Valor(o) == o[1]
EsNulo(o) == o = Nulo

Nombres == {"Bebidas", "Snacks"}
NombresOpc == {Nulo} \cup {Algun(n) : n \in Nombres}
BoolOpc == {Nulo, Algun(TRUE), Algun(FALSE)}
Precios == {Nulo, Algun(2), Algun(3)}
Stocks == {Nulo, Algun(-1), Algun(MaxStock)}
\* Quantities requested: negative, within the stock, above any stock.
Cantidades == {-1, 1, MaxStock + 1}
\* Quantities of the interleaved requests: part of the stock, all of it.
CantidadesConc == {1, MaxStock}

(* ------------------------------ helpers ------------------------------- *)
RECURSIVE Maximo(_)
Maximo(S) == IF S = {} THEN 0
             ELSE LET x == CHOOSE y \in S : TRUE
                      m == Maximo(S \ {x})
                  IN IF x > m THEN x ELSE m

\* INTEGER PRIMARY KEY without AUTOINCREMENT: SQLite assigns max(rowid) + 1.
NuevoId(tabla) == Maximo(DOMAIN tabla) + 1

Insertar(tabla, fila) == [k \in DOMAIN tabla \cup {NuevoId(tabla)} |->
                            IF k \in DOMAIN tabla THEN tabla[k] ELSE fila]

Borrar(tabla, claves) == [k \in DOMAIN tabla \ claves |-> tabla[k]]

Vacia == [k \in {} |-> 0]

(* ----------------------------- responses ------------------------------ *)
R_OK == "200"
R_CategoriaExiste == "400 La categoria con ese nombre ya existe"
R_CategoriaNoEncontrada == "404 Categoria no encontrada"
R_StockNegativo == "400 El stock no puede ser negativo"
R_CategoriaInactiva == "400 La categoria esta inactiva"
R_ProductoExiste == "400 El producto con ese nombre ya existe"
R_ProductoNoEncontrado == "404 Producto no encontrado"
R_SinProductosActivos == "404 No se encontraron productos activos con categoria activa"
R_VentaNoEncontrada == "404 Venta no encontrada"
R_ProductoInactivo == "404 Producto no encontrado o inactivo"
R_StockInsuficiente == "400 Stock insuficiente para el producto"
R_Error == "500"
R_SinCategorias == "404 No se encontraron categorias"
R_SinProductos == "404 No se encontraron productos"
R_PrecioMinimoMayor == "400 El precio minimo no puede ser mayor que el precio maximo"
R_StockMinimoMayor == "400 El stock minimo no puede ser mayor que el stock maximo"
R_SinProductosEntre == "404 No se encontraron productos entre min y max"
R_SinProductosCategoria == "404 No se encontraron productos para esta categoria"
R_SinProductosEstado == "404 No se encontraron productos con este estado"
R_SinProductosCriterios == "404 No se encontraron productos con estos criterios"
R_SinVentas == "404 No se encontraron ventas"
R_NoValido == "422"

(* ------------------------------ initial ------------------------------- *)
Libre == [pc |-> "libre"]

Init ==
    /\ categorias = Vacia
    /\ productos = Vacia
    /\ ventas = Vacia
    /\ items = Vacia
    /\ peticiones = [r \in 1..MaxPeticiones |-> Libre]
    /\ respuesta = "-"
    /\ libro = Vacia
    /\ ahora = 0

(* ------------------------------ catalog ------------------------------- *)
SinCambios == UNCHANGED <<categorias, productos, ventas, items, peticiones, libro, ahora>>

\* Variant of crear_categoria without its query for the name.
crear_categoria_sin_comprobacion(nombre, activo) ==
    /\ NuevoId(categorias) <= MaxCategorias
    /\ categorias' = Insertar(categorias, [nombre |-> nombre, activo |-> activo,
                                          fecha_actualizacion |-> ahora])
    /\ respuesta' = R_OK
    /\ UNCHANGED <<productos, ventas, items, peticiones, libro, ahora>>

\* Variant of crear_categoria that inserts the row before it looks for the name.
crear_categoria_inserta_y_falla(nombre, activo) ==
    LET categorias_comprobacion ==
            {c \in DOMAIN categorias : categorias[c].nombre = nombre}
    IN /\ NuevoId(categorias) <= MaxCategorias
       /\ categorias' = Insertar(categorias, [nombre |-> nombre, activo |-> activo,
                                              fecha_actualizacion |-> ahora])
       /\ respuesta' = IF categorias_comprobacion # {} THEN R_CategoriaExiste ELSE R_OK
       /\ UNCHANGED <<productos, ventas, items, peticiones, libro, ahora>>

\* routers/categoria.py crear_categoria
crear_categoria(nombre, activo) ==
    LET categorias_comprobacion ==
            {c \in DOMAIN categorias : categorias[c].nombre = nombre}
    IN IF categorias_comprobacion # {}
       THEN /\ respuesta' = R_CategoriaExiste
            /\ SinCambios
       ELSE /\ NuevoId(categorias) <= MaxCategorias
            /\ categorias' = Insertar(categorias, [nombre |-> nombre, activo |-> activo,
                                          fecha_actualizacion |-> ahora])
            /\ respuesta' = R_OK
            /\ UNCHANGED <<productos, ventas, items, peticiones, libro, ahora>>

\* Variant of actualizar_categoria that replaces the row: a parameter that is
\* not given puts the field back to its default.
actualizar_categoria_completa(categoria_id, nombre, activo) ==
    IF categoria_id \notin DOMAIN categorias
    THEN /\ respuesta' = R_CategoriaNoEncontrada
         /\ SinCambios
    ELSE LET categoria == categorias[categoria_id]
             nueva == [nombre |-> IF EsNulo(nombre) THEN categoria.nombre ELSE Valor(nombre),
                       activo |-> IF EsNulo(activo) THEN TRUE ELSE Valor(activo),
                       fecha_actualizacion |-> categoria.fecha_actualizacion]
         IN /\ categorias' = [categorias EXCEPT ![categoria_id] = nueva]
            /\ respuesta' = R_OK
            /\ UNCHANGED <<productos, ventas, items, peticiones, libro, ahora>>

\* routers/categoria.py actualizar_categoria: only the non-None parameters are
\* applied; the handler assigns nothing to fecha_actualizacion.
actualizar_categoria(categoria_id, nombre, activo) ==
    IF categoria_id \notin DOMAIN categorias
    THEN /\ respuesta' = R_CategoriaNoEncontrada
         /\ SinCambios
    ELSE LET categoria == categorias[categoria_id]
             nueva == [nombre |-> IF EsNulo(nombre) THEN categoria.nombre ELSE Valor(nombre),
                       activo |-> IF EsNulo(activo) THEN categoria.activo ELSE Valor(activo),
                       fecha_actualizacion |-> categoria.fecha_actualizacion]
         IN /\ categorias' = [categorias EXCEPT ![categoria_id] = nueva]
            /\ respuesta' = R_OK
            /\ UNCHANGED <<productos, ventas, items, peticiones, libro, ahora>>

\* Variant of eliminar_categoria that deletes the category row only.
eliminar_categoria_sin_cascada(categoria_id) ==
    IF categoria_id \notin DOMAIN categorias
    THEN /\ respuesta' = R_CategoriaNoEncontrada
         /\ SinCambios
    ELSE /\ categorias' = Borrar(categorias, {categoria_id})
         /\ respuesta' = R_OK
         /\ UNCHANGED <<productos, ventas, items, peticiones, libro, ahora>>

\* routers/categoria.py eliminar_categoria: deletes categoria.productos, then the row.
eliminar_categoria(categoria_id) ==
    IF categoria_id \notin DOMAIN categorias
    THEN /\ respuesta' = R_CategoriaNoEncontrada
         /\ SinCambios
    ELSE LET borrados == {p \in DOMAIN productos : productos[p].categoria_id = categoria_id}
         IN /\ productos' = Borrar(productos, borrados)
            /\ libro' = Borrar(libro, borrados)
            /\ categorias' = Borrar(categorias, {categoria_id})
            /\ respuesta' = R_OK
            /\ UNCHANGED <<ventas, items, peticiones, ahora>>

\* Variant of crear_producto that looks the name up before its other checks.
crear_producto_nombre_primero(nombre, activo, precio, stock, categoria_id) ==
    LET productos_comprobacion ==
            {p \in DOMAIN productos : productos[p].nombre = nombre}
        falla == IF productos_comprobacion # {} THEN R_ProductoExiste
                 ELSE IF ~EsNulo(stock) /\ Valor(stock) < 0 THEN R_StockNegativo
                 ELSE IF categoria_id \notin DOMAIN categorias THEN R_CategoriaNoEncontrada
                 ELSE IF ~categorias[categoria_id].activo THEN R_CategoriaInactiva
                 ELSE R_OK
    IN IF falla # R_OK
       THEN /\ respuesta' = falla
            /\ SinCambios
       ELSE /\ NuevoId(productos) <= MaxProductos
            /\ productos' = Insertar(productos,
                   [nombre |-> nombre, activo |-> activo, precio |-> precio,
                    stock |-> stock, categoria_id |-> categoria_id,
                    fecha_actualizacion |-> ahora])
            /\ libro' = [p \in DOMAIN productos' |->
                           IF p \in DOMAIN productos THEN libro[p]
                           ELSE [base |-> stock, vendido |-> 0]]
            /\ respuesta' = R_OK
            /\ UNCHANGED <<categorias, ventas, items, peticiones, ahora>>

\* routers/productos.py crear_producto: the four checks in the order of the code.
crear_producto(nombre, activo, precio, stock, categoria_id) ==
    LET productos_comprobacion ==
            {p \in DOMAIN productos : productos[p].nombre = nombre}
        falla == IF ~EsNulo(stock) /\ Valor(stock) < 0 THEN R_StockNegativo
                 ELSE IF categoria_id \notin DOMAIN categorias THEN R_CategoriaNoEncontrada
                 ELSE IF ~categorias[categoria_id].activo THEN R_CategoriaInactiva
                 ELSE IF productos_comprobacion # {} THEN R_ProductoExiste
                 ELSE R_OK
    IN IF falla # R_OK
       THEN /\ respuesta' = falla
            /\ SinCambios
       ELSE /\ NuevoId(productos) <= MaxProductos
            /\ productos' = Insertar(productos,
                   [nombre |-> nombre, activo |-> activo, precio |-> precio,
                    stock |-> stock, categoria_id |-> categoria_id,
                    fecha_actualizacion |-> ahora])
            /\ libro' = [p \in DOMAIN productos' |->
                           IF p \in DOMAIN productos THEN libro[p]
                           ELSE [base |-> stock, vendido |-> 0]]
            /\ respuesta' = R_OK
            /\ UNCHANGED <<categorias, ventas, items, peticiones, ahora>>

\* Variant of actualizar_producto without its check of the stock given.
actualizar_producto_sin_comprobacion(producto_id, nombre, activo, precio, stock) ==
    IF producto_id \notin DOMAIN productos
    THEN /\ respuesta' = R_ProductoNoEncontrado
         /\ SinCambios
    ELSE LET producto == productos[producto_id]
             nuevo == [nombre |-> IF EsNulo(nombre) THEN producto.nombre ELSE Valor(nombre),
                       activo |-> IF EsNulo(activo) THEN producto.activo ELSE Valor(activo),
                       precio |-> IF EsNulo(precio) THEN producto.precio ELSE precio,
                       stock |-> IF EsNulo(stock) THEN producto.stock ELSE stock,
                       categoria_id |-> producto.categoria_id,
                       fecha_actualizacion |-> ahora]
         IN /\ productos' = [productos EXCEPT ![producto_id] = nuevo]
            /\ libro' = IF EsNulo(stock) THEN libro
                        ELSE [libro EXCEPT ![producto_id] = [base |-> stock, vendido |-> 0]]
            /\ respuesta' = R_OK
            /\ UNCHANGED <<categorias, ventas, items, peticiones, ahora>>

\* routers/productos.py actualizar_producto
actualizar_producto(producto_id, nombre, activo, precio, stock) ==
    IF ~EsNulo(stock) /\ Valor(stock) < 0
    THEN /\ respuesta' = R_StockNegativo
         /\ SinCambios
    ELSE IF producto_id \notin DOMAIN productos
    THEN /\ respuesta' = R_ProductoNoEncontrado
         /\ SinCambios
    ELSE LET producto == productos[producto_id]
             nuevo == [nombre |-> IF EsNulo(nombre) THEN producto.nombre ELSE Valor(nombre),
                       activo |-> IF EsNulo(activo) THEN producto.activo ELSE Valor(activo),
                       precio |-> IF EsNulo(precio) THEN producto.precio ELSE precio,
                       stock |-> IF EsNulo(stock) THEN producto.stock ELSE stock,
                       categoria_id |-> producto.categoria_id,
                       fecha_actualizacion |-> ahora]
         IN /\ productos' = [productos EXCEPT ![producto_id] = nuevo]
            /\ libro' = IF EsNulo(stock) THEN libro
                        ELSE [libro EXCEPT ![producto_id] = [base |-> stock, vendido |-> 0]]
            /\ respuesta' = R_OK
            /\ UNCHANGED <<categorias, ventas, items, peticiones, ahora>>

\* Variant of eliminar_producto that zeroes the product and leaves it active.
eliminar_producto_sin_desactivar(producto_id) ==
    IF producto_id \notin DOMAIN productos
    THEN /\ respuesta' = R_ProductoNoEncontrado
         /\ SinCambios
    ELSE /\ productos' = [productos EXCEPT ![producto_id].precio = Algun(0),
                                           ![producto_id].stock = Algun(0)]
         /\ libro' = [libro EXCEPT ![producto_id] = [base |-> Algun(0), vendido |-> 0]]
         /\ respuesta' = R_OK
         /\ UNCHANGED <<categorias, ventas, items, peticiones, ahora>>

\* routers/productos.py eliminar_producto.  Producto declares no field
\* `eliminacion` (only Categoria does), so whether `producto.eliminacion = False`
\* raises depends on the installed SQLModel/pydantic: both outcomes are kept.
eliminar_producto(producto_id) ==
    IF producto_id \notin DOMAIN productos
    THEN /\ respuesta' = R_ProductoNoEncontrado
         /\ SinCambios
    ELSE \/ /\ respuesta' = R_Error
            /\ SinCambios
         \/ /\ productos' = [productos EXCEPT ![producto_id].activo = FALSE,
                                              ![producto_id].precio = Algun(0),
                                              ![producto_id].stock = Algun(0)]
            /\ libro' = [libro EXCEPT ![producto_id] = [base |-> Algun(0), vendido |-> 0]]
            /\ respuesta' = R_OK
            /\ UNCHANGED <<categorias, ventas, items, peticiones, ahora>>

\* Time passes between two requests.
Tic ==
    /\ ahora < MaxReloj
    /\ ahora' = ahora + 1
    /\ UNCHANGED <<categorias, productos, ventas, items, peticiones, respuesta, libro>>

(* ------------------------------- sales -------------------------------- *)
\* routers/venta.py crear_venta
crear_venta ==
    /\ NuevoId(ventas) <= MaxVentas
    /\ ventas' = Insertar(ventas, [total |-> 0])
    /\ respuesta' = R_OK
    /\ UNCHANGED <<categorias, productos, items, peticiones, libro, ahora>>

\* Variant of the join that ignores the active flags.
ProductosActivos_todos == DOMAIN productos

\* The join of agregar_item_venta: active products whose category is active.
ProductosActivos ==
    {p \in DOMAIN productos :
        /\ productos[p].activo
        /\ productos[p].categoria_id \in DOMAIN categorias
        /\ categorias[productos[p].categoria_id].activo}

Fin(resp) == [pc |-> "fin", respuesta |-> resp]

\* First statement of the handler.  The rows the query returns stay in the
\* session's identity map, so a later session.get of one of them reads no row.
PasoConsulta(venta_id, producto_id, cantidad) ==
    IF ProductosActivos = {}
    THEN Fin(R_SinProductosActivos)
    ELSE [pc |-> "venta", venta_id |-> venta_id, producto_id |-> producto_id,
          cantidad |-> cantidad,
          mapa |-> IF producto_id \in ProductosActivos
                   THEN Algun(productos[producto_id]) ELSE Nulo]

\* venta = session.get(Venta, venta_id)
PasoVenta(pt) ==
    IF pt.venta_id \notin DOMAIN ventas
    THEN Fin(R_VentaNoEncontrada)
    ELSE [pc |-> "producto", venta_id |-> pt.venta_id, producto_id |-> pt.producto_id,
          cantidad |-> pt.cantidad, mapa |-> pt.mapa, venta |-> ventas[pt.venta_id]]

\* Variant of the stock check that lets one unit too many through.
StockInsuficiente_laxo(stock, cantidad) == stock + 1 < cantidad
\* if producto.stock < cantidad: raise 400
StockInsuficiente(stock, cantidad) == stock < cantidad

\* Variant that records the amount of the line instead of the unit price.
PrecioUnitario_actual(precio, cantidad) == precio * cantidad
\* precio_unitario = producto.precio
PrecioUnitario(precio, cantidad) == precio

\* Variant that forgets the decrement.
StockNuevo_sin_descuento(stock, cantidad) == stock
\* producto.stock -= cantidad
StockNuevo(stock, cantidad) == stock - cantidad

\* Variant that adds the unit price once, whatever the quantity.
TotalNuevo_sin_cantidad(total, precio_unitario, cantidad) == total + precio_unitario
\* venta.total += precio_unitario * cantidad
TotalNuevo(total, precio_unitario, cantidad) == total + precio_unitario * cantidad

\* producto = session.get(Producto, producto_id), the checks, and the in-memory
\* changes up to session.commit().  None < int and None * int raise TypeError.
PasoProducto(pt) ==
    LET leido == IF ~EsNulo(pt.mapa) THEN pt.mapa
                 ELSE IF pt.producto_id \in DOMAIN productos
                      THEN Algun(productos[pt.producto_id]) ELSE Nulo
    IN IF EsNulo(leido) \/ ~Valor(leido).activo THEN Fin(R_ProductoInactivo)
       ELSE LET producto == Valor(leido)
            IN IF EsNulo(producto.stock) THEN Fin(R_Error)
               ELSE IF StockInsuficiente(Valor(producto.stock), pt.cantidad)
                    THEN Fin(R_StockInsuficiente)
               ELSE IF EsNulo(producto.precio) THEN Fin(R_Error)
               ELSE [pc |-> "commit", venta_id |-> pt.venta_id,
                     producto_id |-> pt.producto_id, cantidad |-> pt.cantidad,
                     precio_unitario |-> PrecioUnitario(Valor(producto.precio), pt.cantidad),
                     stock_leido |-> Valor(producto.stock),
                     stock |-> StockNuevo(Valor(producto.stock), pt.cantidad),
                     total_leido |-> pt.venta.total,
                     total |-> TotalNuevo(pt.venta.total,
                                         PrecioUnitario(Valor(producto.precio), pt.cantidad),
                                         pt.cantidad)]

Avanzar(pt) ==
    IF pt.pc = "venta" THEN PasoVenta(pt)
    ELSE IF pt.pc = "producto" THEN PasoProducto(pt)
    ELSE pt

\* The flush of session.commit(): an UPDATE is emitted for a changed attribute
\* only, and one that matches no row raises StaleDataError and rolls back.
Obsoleto(pt) ==
    \/ pt.stock # pt.stock_leido /\ pt.producto_id \notin DOMAIN productos
    \/ pt.total # pt.total_leido /\ pt.venta_id \notin DOMAIN ventas

\* Variant: UPDATE producto SET stock = stock - ? (a decrement in the database).
EscribirStock_relativo(pt) ==
    [productos EXCEPT ![pt.producto_id].stock = Algun(Valor(@) - pt.cantidad)]
\* UPDATE producto SET stock=? WHERE producto_id=?
EscribirStock(pt) ==
    IF pt.stock = pt.stock_leido THEN productos
    ELSE [productos EXCEPT ![pt.producto_id].stock = Algun(pt.stock)]

\* Variant in which the total is left out of the transaction.
EscribirTotal_omitido(pt) == ventas
\* UPDATE venta SET total=? WHERE venta_id=?
EscribirTotal(pt) ==
    IF pt.total = pt.total_leido THEN ventas
    ELSE [ventas EXCEPT ![pt.venta_id].total = pt.total]

\* INSERT INTO ventaitem
EscribirItem(pt) ==
    Insertar(items, [venta_id |-> pt.venta_id, producto_id |-> pt.producto_id,
                     cantidad |-> pt.cantidad, precio_unitario |-> pt.precio_unitario])

\* History: the quantity taken from the product by a committed request.
Anotar(pt) ==
    IF pt.producto_id \in DOMAIN libro
    THEN [libro EXCEPT ![pt.producto_id].vendido = @ + pt.cantidad]
    ELSE libro

\* The answer of the handler and the tables it leaves, for a request that has
\* done its reads.  session.add x3; session.commit() is one transaction: it
\* writes the item, the stock and the total, or (rolled back) nothing.
Resultado(pt) ==
    IF pt.pc = "fin" \/ Obsoleto(pt)
    THEN [respuesta |-> IF pt.pc = "fin" THEN pt.respuesta ELSE R_Error,
          productos |-> productos, ventas |-> ventas, items |-> items,
          libro |-> libro]
    ELSE [respuesta |-> R_OK,
          productos |-> EscribirStock(pt), ventas |-> EscribirTotal(pt),
          items |-> EscribirItem(pt), libro |-> Anotar(pt)]

\* The model's bounds on a request that commits.
EnCotas(pt) ==
    (pt.pc = "commit" /\ ~Obsoleto(pt)) =>
        (NuevoId(items) <= MaxItems /\ pt.stock <= MaxStock)

Aplicar(res) ==
    /\ respuesta' = res.respuesta
    /\ productos' = res.productos
    /\ ventas' = res.ventas
    /\ items' = res.items
    /\ libro' = res.libro
    /\ UNCHANGED <<categorias, ahora>>

\* The reads of the handler, in its order, on the current tables.
Lecturas(venta_id, producto_id, cantidad) ==
    Avanzar(Avanzar(PasoConsulta(venta_id, producto_id, cantidad)))

\* routers/venta.py agregar_item_venta, run without interruption.
agregar_item_venta(venta_id, producto_id, cantidad) ==
    LET pt == Lecturas(venta_id, producto_id, cantidad)
    IN /\ EnCotas(pt)
       /\ Aplicar(Resultado(pt))
       /\ UNCHANGED peticiones

(* agregar_item_venta of request r, one database statement at a time. *)
Iniciar(r, venta_id, producto_id, cantidad) ==
    /\ peticiones[r].pc = "libre"
    /\ LET pt == PasoConsulta(venta_id, producto_id, cantidad)
       IN IF pt.pc = "fin"
          THEN /\ respuesta' = pt.respuesta
               /\ UNCHANGED peticiones
          ELSE /\ peticiones' = [peticiones EXCEPT ![r] = pt]
               /\ UNCHANGED respuesta
    /\ UNCHANGED <<categorias, productos, ventas, items, libro, ahora>>

Leer(r) ==
    /\ peticiones[r].pc \in {"venta", "producto"}
    /\ LET pt == Avanzar(peticiones[r])
       IN IF pt.pc = "fin"
          THEN /\ respuesta' = pt.respuesta
               /\ peticiones' = [peticiones EXCEPT ![r] = Libre]
          ELSE /\ peticiones' = [peticiones EXCEPT ![r] = pt]
               /\ UNCHANGED respuesta
    /\ UNCHANGED <<categorias, productos, ventas, items, libro, ahora>>

Commit(r) ==
    /\ peticiones[r].pc = "commit"
    /\ EnCotas(peticiones[r])
    /\ Aplicar(Resultado(peticiones[r]))
    /\ peticiones' = [peticiones EXCEPT ![r] = Libre]

(* crear_categoria and crear_producto of request r, in two steps: their     *)
(* SELECTs, then the INSERT of session.commit().                            *)
ComprobarCategoria(r, nombre, activo) ==
    /\ peticiones[r].pc = "libre"
    /\ LET categorias_comprobacion ==
               {c \in DOMAIN categorias : categorias[c].nombre = nombre}
       IN IF categorias_comprobacion # {}
          THEN /\ respuesta' = R_CategoriaExiste
               /\ UNCHANGED peticiones
          ELSE /\ peticiones' = [peticiones EXCEPT ![r] =
                       [pc |-> "insertar_categoria",
                        fila |-> [nombre |-> nombre, activo |-> activo,
                                  fecha_actualizacion |-> ahora]]]
               /\ UNCHANGED respuesta
    /\ UNCHANGED <<categorias, productos, ventas, items, libro, ahora>>

InsertarCategoria(r) ==
    /\ peticiones[r].pc = "insertar_categoria"
    /\ NuevoId(categorias) <= MaxCategorias
    /\ categorias' = Insertar(categorias, peticiones[r].fila)
    /\ respuesta' = R_OK
    /\ peticiones' = [peticiones EXCEPT ![r] = Libre]
    /\ UNCHANGED <<productos, ventas, items, libro, ahora>>

ComprobarProducto(r, nombre, activo, precio, stock, categoria_id) ==
    /\ peticiones[r].pc = "libre"
    /\ LET productos_comprobacion ==
               {p \in DOMAIN productos : productos[p].nombre = nombre}
           falla == IF ~EsNulo(stock) /\ Valor(stock) < 0 THEN R_StockNegativo
                    ELSE IF categoria_id \notin DOMAIN categorias
                         THEN R_CategoriaNoEncontrada
                    ELSE IF ~categorias[categoria_id].activo THEN R_CategoriaInactiva
                    ELSE IF productos_comprobacion # {} THEN R_ProductoExiste
                    ELSE R_OK
       IN IF falla # R_OK
          THEN /\ respuesta' = falla
               /\ UNCHANGED peticiones
          ELSE /\ peticiones' = [peticiones EXCEPT ![r] =
                       [pc |-> "insertar_producto",
                        fila |-> [nombre |-> nombre, activo |-> activo,
                                  precio |-> precio, stock |-> stock,
                                  categoria_id |-> categoria_id,
                                  fecha_actualizacion |-> ahora]]]
               /\ UNCHANGED respuesta
    /\ UNCHANGED <<categorias, productos, ventas, items, libro, ahora>>

InsertarProducto(r) ==
    /\ peticiones[r].pc = "insertar_producto"
    /\ NuevoId(productos) <= MaxProductos
    /\ productos' = Insertar(productos, peticiones[r].fila)
    /\ libro' = [p \in DOMAIN productos' |->
                   IF p \in DOMAIN productos THEN libro[p]
                   ELSE [base |-> peticiones[r].fila.stock, vendido |-> 0]]
    /\ respuesta' = R_OK
    /\ peticiones' = [peticiones EXCEPT ![r] = Libre]
    /\ UNCHANGED <<categorias, ventas, items, ahora>>

(* ------------------------------ queries ------------------------------- *)
\* The rows of a table with the keys in S: what .all() returns.
Filas(tabla, S) == [k \in S |-> tabla[k]]

\* Variant in which an empty list is an answer like any other.
Listado_lista_vacia(filas, vacio) == [respuesta |-> R_OK, filas |-> filas]

\* if not <rows>: raise HTTPException(404, ...); return <rows>
Listado(filas, vacio) ==
    IF DOMAIN filas = {} THEN [respuesta |-> vacio, filas |-> filas]
    ELSE [respuesta |-> R_OK, filas |-> filas]

\* routers/categoria.py leer_categorias
leer_categorias ==
    Listado(Filas(categorias, {c \in DOMAIN categorias : categorias[c].activo}),
            R_SinCategorias)

\* routers/categoria.py leer_categoria_id
leer_categoria_id(categoria_id) ==
    Listado(Filas(categorias, {categoria_id} \cap DOMAIN categorias),
            R_CategoriaNoEncontrada)

\* routers/categoria.py leer_categorias_activo
leer_categorias_activo(activo) ==
    Listado(Filas(categorias, {c \in DOMAIN categorias : categorias[c].activo = activo}),
            R_SinCategorias)

\* routers/productos.py leer_productos: the join with the active categories.
leer_productos ==
    Listado(Filas(productos, ProductosActivos), R_SinProductos)

\* BETWEEN of a column that may be NULL: NULL is in no range.
Entre(o, minimo, maximo) == ~EsNulo(o) /\ minimo <= Valor(o) /\ Valor(o) <= maximo

\* routers/productos.py leer_productos_por_precio; Query(..., gt=0) answers 422.
leer_productos_por_precio(precio_min, precio_max) ==
    IF precio_min <= 0 \/ precio_max <= 0
    THEN [respuesta |-> R_NoValido, filas |-> Vacia]
    ELSE IF precio_min > precio_max
    THEN [respuesta |-> R_PrecioMinimoMayor, filas |-> Vacia]
    ELSE Listado(Filas(productos,
                       {p \in DOMAIN productos :
                           Entre(productos[p].precio, precio_min, precio_max)}),
                 R_SinProductosEntre)

\* routers/productos.py leer_productos_por_stock; Query(..., gt=0) answers 422.
leer_productos_por_stock(stock_min, stock_max) ==
    IF stock_min <= 0 \/ stock_max <= 0
    THEN [respuesta |-> R_NoValido, filas |-> Vacia]
    ELSE IF stock_min > stock_max
    THEN [respuesta |-> R_StockMinimoMayor, filas |-> Vacia]
    ELSE Listado(Filas(productos,
                       {p \in DOMAIN productos :
                           Entre(productos[p].stock, stock_min, stock_max)}),
                 R_SinProductosEntre)

\* routers/productos.py leer_producto_por_id
leer_producto_por_id(producto_id) ==
    Listado(Filas(productos, {producto_id} \cap DOMAIN productos),
            R_ProductoNoEncontrado)

\* routers/productos.py leer_productos_por_categoria
leer_productos_por_categoria(categoria_id) ==
    Listado(Filas(productos,
                  {p \in DOMAIN productos : productos[p].categoria_id = categoria_id}),
            R_SinProductosCategoria)

\* routers/productos.py leer_productos_por_estado
leer_productos_por_estado(activo) ==
    Listado(Filas(productos, {p \in DOMAIN productos : productos[p].activo = activo}),
            R_SinProductosEstado)

\* routers/productos.py leer_productos_por_categoria_y_estado
leer_productos_por_categoria_y_estado(categoria_id, activo) ==
    Listado(Filas(productos,
                  {p \in DOMAIN productos :
                      /\ productos[p].categoria_id = categoria_id
                      /\ productos[p].activo = activo}),
            R_SinProductosCriterios)

\* VentaResponse: the sale with its items, each with its product (None when
\* the product row is gone).
VentaConItems(v) ==
    [total |-> ventas[v].total,
     items |-> [i \in {j \in DOMAIN items : items[j].venta_id = v} |->
                  [cantidad |-> items[i].cantidad,
                   precio_unitario |-> items[i].precio_unitario,
                   producto |-> IF items[i].producto_id \in DOMAIN productos
                                THEN Algun(productos[items[i].producto_id])
                                ELSE Nulo]]]

\* routers/venta.py leer_ventas (GET /ventas/)
leer_ventas ==
    Listado([v \in DOMAIN ventas |-> VentaConItems(v)], R_SinVentas)

\* routers/venta.py leer_ventas (GET /ventas/{venta_id}/), the second function
\* of that name.
leer_ventas_id(venta_id) ==
    Listado([v \in {venta_id} \cap DOMAIN ventas |-> VentaConItems(v)], R_SinVentas)

\* A query answers and writes nothing.
Consultar(res) ==
    /\ respuesta' = res.respuesta
    /\ SinCambios

\* Bounds given to the two range queries.
Rangos == 0..3

(* --------------------------- specifications --------------------------- *)
\* How many of the optional parameters of a request are given.
Dados(opcionales) ==
    Cardinality({i \in DOMAIN opcionales : ~EsNulo(opcionales[i])})

(* Spec: every handler, one request at a time, on an empty database.  The  *)
(* workload names one category and one product; the catalogue with several *)
(* names is SpecCatalogo.                                                  *)
CatalogoVenta ==
    \/ \E a \in BOOLEAN : crear_categoria("Bebidas", a)
    \/ \E c \in 1..MaxCategorias, a \in BoolOpc : actualizar_categoria(c, Nulo, a)
    \/ \E c \in 1..MaxCategorias : eliminar_categoria(c)
    \/ \E a \in BOOLEAN, pr \in Precios, s \in Stocks, c \in 1..MaxCategorias :
          crear_producto("Agua", a, pr, s, c)
    \/ \E p \in 1..MaxProductos, a \in BoolOpc, pr \in Precios, s \in Stocks :
          /\ Dados(<<a, pr, s>>) <= 1
          /\ actualizar_producto(p, Nulo, a, pr, s)
    \/ \E p \in 1..MaxProductos : eliminar_producto(p)

Next ==
    \/ CatalogoVenta
    \/ crear_venta
    \/ \E v \in 1..(MaxVentas + 1), p \in 1..MaxProductos, c \in Cantidades :
          agregar_item_venta(v, p, c)

Spec == Init /\ [][Next]_vars

(* SpecCatalogo: the catalogue handlers alone, with two names for the       *)
(* categories and for the products and every combination of the optional   *)
(* name and active parameters of the updates.                              *)
NextCatalogo ==
    \/ \E n \in Nombres, a \in BOOLEAN : crear_categoria(n, a)
    \/ \E c \in 1..MaxCategorias, n \in NombresOpc, a \in BoolOpc :
          actualizar_categoria(c, n, a)
    \/ \E c \in 1..MaxCategorias : eliminar_categoria(c)
    \/ \E n \in Nombres, a \in BOOLEAN, s \in {Algun(-1), Algun(MaxStock)},
          c \in 1..MaxCategorias : crear_producto(n, a, Algun(2), s, c)
    \/ \E p \in 1..MaxProductos, n \in NombresOpc, a \in BoolOpc :
          actualizar_producto(p, n, a, Nulo, Nulo)
    \/ \E p \in 1..MaxProductos : eliminar_producto(p)

SpecCatalogo == Init /\ [][NextCatalogo]_vars

(* SpecSurtido: up to two categories and two products, activated,           *)
(* deactivated, soft-deleted and sold: the sales of a catalogue in which     *)
(* the product sold is not the only product.  Rows are never deleted here.   *)
NombresProducto == {"Agua", "Papas"}
Activar == {Algun(TRUE), Algun(FALSE)}

NextSurtido ==
    \/ \E n \in Nombres : crear_categoria(n, TRUE)
    \/ \E c \in 1..MaxCategorias, a \in Activar : actualizar_categoria(c, Nulo, a)
    \/ \E n \in NombresProducto, c \in 1..MaxCategorias :
          crear_producto(n, TRUE, Algun(2), Algun(MaxStock), c)
    \/ \E p \in 1..MaxProductos, a \in Activar :
          actualizar_producto(p, Nulo, a, Nulo, Nulo)
    \/ \E p \in 1..MaxProductos : eliminar_producto(p)
    \/ crear_venta
    \/ \E v \in 1..(MaxVentas + 1), p \in 1..MaxProductos, c \in {1, MaxStock + 1} :
          agregar_item_venta(v, p, c)

SpecSurtido == Init /\ [][NextSurtido]_vars

(* SpecFechas: the catalogue handlers with time passing between requests.   *)
NextFechas ==
    \/ Tic
    \/ crear_categoria("Bebidas", TRUE)
    \/ \E c \in 1..MaxCategorias, n \in NombresOpc, a \in BoolOpc :
          actualizar_categoria(c, n, a)
    \/ \E c \in 1..MaxCategorias :
          crear_producto("Agua", TRUE, Algun(2), Algun(MaxStock), c)
    \/ \E p \in 1..MaxProductos, a \in BoolOpc, pr \in {Nulo, Algun(3)} :
          actualizar_producto(p, Nulo, a, pr, Nulo)
    \/ \E p \in 1..MaxProductos : eliminar_producto(p)

SpecFechas == Init /\ [][NextFechas]_vars

(* SpecConsultas: the queries on a catalogue with sales.                    *)
Consultas ==
    \/ Consultar(leer_categorias)
    \/ \E c \in 1..(MaxCategorias + 1) : Consultar(leer_categoria_id(c))
    \/ \E a \in BOOLEAN : Consultar(leer_categorias_activo(a))
    \/ Consultar(leer_productos)
    \/ \E mi \in Rangos, ma \in Rangos : Consultar(leer_productos_por_precio(mi, ma))
    \/ \E mi \in Rangos, ma \in Rangos : Consultar(leer_productos_por_stock(mi, ma))
    \/ \E p \in 1..(MaxProductos + 1) : Consultar(leer_producto_por_id(p))
    \/ \E c \in 1..(MaxCategorias + 1) : Consultar(leer_productos_por_categoria(c))
    \/ \E a \in BOOLEAN : Consultar(leer_productos_por_estado(a))
    \/ \E c \in 1..(MaxCategorias + 1), a \in BOOLEAN :
          Consultar(leer_productos_por_categoria_y_estado(c, a))
    \/ Consultar(leer_ventas)
    \/ \E v \in 1..(MaxVentas + 1) : Consultar(leer_ventas_id(v))

NextConsultas ==
    \/ \E n \in Nombres, a \in BOOLEAN : crear_categoria(n, a)
    \/ \E c \in 1..MaxCategorias : eliminar_categoria(c)
    \/ \E n \in NombresProducto, pr \in {Nulo, Algun(2)}, c \in 1..MaxCategorias :
          crear_producto(n, TRUE, pr, Algun(MaxStock), c)
    \/ \E p \in 1..MaxProductos : eliminar_producto(p)
    \/ crear_venta
    \/ \E p \in 1..MaxProductos : agregar_item_venta(1, p, 1)
    \/ Consultas

SpecConsultas == Init /\ [][NextConsultas]_vars

(* SpecAltas: crear_categoria and crear_producto requests served side by    *)
(* side (several worker processes on the one SQLite file), the check of the *)
(* name and the insert of one interleaving with those of another.           *)
NextAltas ==
    \/ \E r \in 1..MaxPeticiones, n \in Nombres, a \in BOOLEAN :
          ComprobarCategoria(r, n, a)
    \/ \E r \in 1..MaxPeticiones : InsertarCategoria(r)
    \/ \E r \in 1..MaxPeticiones, n \in NombresProducto, s \in {Algun(-1), Algun(MaxStock)},
          c \in 1..MaxCategorias : ComprobarProducto(r, n, TRUE, Algun(2), s, c)
    \/ \E r \in 1..MaxPeticiones : InsertarProducto(r)

SpecAltas == Init /\ [][NextAltas]_vars

(* SpecConc: agregar_item_venta requests served side by side (several     *)
(* worker processes on the one SQLite file): their SELECTs and their COMMIT *)
(* interleave.  The catalogue and the sales are created first by requests   *)
(* that run alone.                                                          *)
NextConc ==
    \/ \E a \in BOOLEAN : crear_categoria("Bebidas", a)
    \/ \E pr \in {Nulo, Algun(2)}, c \in 1..MaxCategorias :
          crear_producto("Agua", TRUE, pr, Algun(MaxStock), c)
    \/ crear_venta
    \/ \E r \in 1..MaxPeticiones, v \in 1..(MaxVentas + 1), p \in 1..MaxProductos,
          c \in CantidadesConc : Iniciar(r, v, p, c)
    \/ \E r \in 1..MaxPeticiones : Leer(r)
    \/ \E r \in 1..MaxPeticiones : Commit(r)

SpecConc == Init /\ [][NextConc]_vars

(* ------------------------- sums over the tables ----------------------- *)
RECURSIVE Suma(_, _)
Suma(f, S) == IF S = {} THEN 0
              ELSE LET x == CHOOSE y \in S : TRUE IN f[x] + Suma(f, S \ {x})

ItemsDeVenta(v) == {i \in DOMAIN items : items[i].venta_id = v}
ItemsDeProducto(p) == {i \in DOMAIN items : items[i].producto_id = p}
Importe == [i \in DOMAIN items |-> items[i].precio_unitario * items[i].cantidad]
Cantidad == [i \in DOMAIN items |-> items[i].cantidad]

(* ----------------------------- properties ----------------------------- *)
\* C1: with agregar_item_venta requests interleaving on the same product, the
\* stock of every product is >= 0 in every reachable state.
C1_StockNoNegativo ==
    \A p \in DOMAIN productos :
        ~EsNulo(productos[p].stock) => Valor(productos[p].stock) >= 0

\* Two requests have passed the stock check on the same reading of the stock
\* and both have committed: more was sold than the product ever had.
C1_Witness ==
    \E p \in DOMAIN productos :
        /\ ~EsNulo(productos[p].stock)
        /\ Cardinality(ItemsDeProducto(p)) = 2
        /\ \A i \in ItemsDeProducto(p) : items[i].cantidad > 0
        /\ Suma(Cantidad, ItemsDeProducto(p)) > Valor(libro[p].base)

\* C2: stock conservation.  For every product whose stock is set, the stock is
\* the value S last given to it by crear_producto, actualizar_producto or
\* eliminar_producto minus the sum of the quantities of the successful
\* agregar_item_venta calls made since, and it is never negative.
C2_ConservacionStock ==
    \A p \in DOMAIN productos :
        /\ EsNulo(productos[p].stock) <=> EsNulo(libro[p].base)
        /\ ~EsNulo(productos[p].stock) =>
              /\ Valor(productos[p].stock) >= 0
              /\ Valor(productos[p].stock) = Valor(libro[p].base) - libro[p].vendido

\* Two sales of the product have succeeded since its stock was set.
C2_Witness ==
    \E p \in DOMAIN productos :
        /\ ~EsNulo(productos[p].stock)
        /\ libro[p].vendido = 2
        /\ Cardinality(ItemsDeProducto(p)) = 2
        /\ Valor(productos[p].stock) = 0

\* C3: total correctness.  Every sale's total is the sum of
\* precio_unitario * cantidad over the items of that sale (0 without items).
C3_TotalCorrecto ==
    \A v \in DOMAIN ventas : ventas[v].total = Suma(Importe, ItemsDeVenta(v))

\* A sale with two items and a non-zero total.
C3_Witness ==
    \E v \in DOMAIN ventas :
        /\ Cardinality(ItemsDeVenta(v)) = 2
        /\ ventas[v].total > 0

\* What a call about product p with a quantity above its stock looks like.
ExcedeStock(p, c) ==
    /\ p \in DOMAIN productos
    /\ ~EsNulo(productos[p].stock)
    /\ c > Valor(productos[p].stock)

\* C4 as stated: in every state, every agregar_item_venta call on an existing
\* sale and an existing, active product with cantidad > stock answers "Stock
\* insuficiente" and leaves every table as it is.
C4_Original ==
    \A v \in DOMAIN ventas, p \in 1..MaxProductos, c \in Cantidades :
        (ExcedeStock(p, c) /\ productos[p].activo) =>
            LET res == Resultado(Lecturas(v, p, c))
            IN /\ res.respuesta = R_StockInsuficiente
               /\ <<res.productos, res.ventas, res.items>> = <<productos, ventas, items>>

\* C4 amended: every agregar_item_venta call with cantidad > stock fails with
\* one of the handler's four declared errors and leaves every table as it is;
\* the error is "Stock insuficiente" when some active product has an active
\* category, the sale exists and the product is active, and the 404 of the
\* first of these checks that fails otherwise.
C4_SinSobreventa ==
    \A v \in 1..(MaxVentas + 1), p \in 1..MaxProductos, c \in Cantidades :
        ExcedeStock(p, c) =>
            LET res == Resultado(Lecturas(v, p, c))
            IN /\ <<res.productos, res.ventas, res.items>> = <<productos, ventas, items>>
               /\ res.respuesta = IF ProductosActivos = {} THEN R_SinProductosActivos
                                  ELSE IF v \notin DOMAIN ventas THEN R_VentaNoEncontrada
                                  ELSE IF ~productos[p].activo THEN R_ProductoInactivo
                                  ELSE R_StockInsuficiente

\* The last call was refused for stock while a product has less stock than the
\* largest quantity requested, with an item already sold.
C4_Witness ==
    /\ respuesta = R_StockInsuficiente
    /\ items # Vacia
    /\ \E p \in DOMAIN productos : productos[p].activo /\ ExcedeStock(p, 1)

\* C7: price immutability.  The item a step inserts carries the price the
\* product had before that step, and no step of any handler changes or removes
\* an item that exists.
C7_PrecioInmutable ==
    [][/\ \A i \in DOMAIN items : i \in DOMAIN items' /\ items'[i] = items[i]
       /\ \A i \in DOMAIN items' \ DOMAIN items :
             /\ items'[i].producto_id \in DOMAIN productos
             /\ productos[items'[i].producto_id].precio
                    = Algun(items'[i].precio_unitario)]_vars

\* An item whose product now has another price than the one the item records.
C7_Witness ==
    \E i \in DOMAIN items :
        /\ items[i].producto_id \in DOMAIN productos
        /\ items[i].precio_unitario = 2
        /\ productos[items[i].producto_id].precio = Algun(3)

\* C8 as stated: in every step the items of every sale are kept as they are
\* (the set only grows) and no sale's total decreases.
C8_SoloCrece ==
    [][/\ \A i \in DOMAIN items : i \in DOMAIN items' /\ items'[i] = items[i]
       /\ \A v \in DOMAIN ventas :
             v \in DOMAIN ventas' /\ ventas'[v].total >= ventas[v].total]_vars

ExisteCategoria(n) == \E c \in DOMAIN categorias : categorias[c].nombre = n
ExisteProducto(n) == \E p \in DOMAIN productos : productos[p].nombre = n

\* C9 as stated: crear_categoria and crear_producto called with the name of an
\* existing row of the same table answer "ya existe" and change no table.
C9_Original ==
    [][/\ \A n \in Nombres, a \in BOOLEAN :
             (ExisteCategoria(n) /\ crear_categoria(n, a))
             => (respuesta' = R_CategoriaExiste /\ UNCHANGED tablas)
       /\ \A n \in Nombres, a \in BOOLEAN, s \in {Algun(-1), Algun(MaxStock)},
             c \in 1..MaxCategorias :
             (ExisteProducto(n) /\ crear_producto(n, a, Algun(2), s, c))
             => (respuesta' = R_ProductoExiste /\ UNCHANGED tablas)]_vars

\* C9 amended: crear_categoria with the name of an existing category (active
\* or not) answers "ya existe" and changes no table.  crear_producto with the
\* name of an existing product (active or not) fails and changes no table; its
\* error is "ya existe" when the stock is not negative and the category exists
\* and is active, and the error of the first of those checks otherwise.
C9_NombreDuplicado ==
    [][/\ \A n \in Nombres, a \in BOOLEAN :
             (ExisteCategoria(n) /\ crear_categoria(n, a))
             => (respuesta' = R_CategoriaExiste /\ UNCHANGED tablas)
       /\ \A n \in Nombres, a \in BOOLEAN, s \in {Algun(-1), Algun(MaxStock)},
             c \in 1..MaxCategorias :
             (ExisteProducto(n) /\ crear_producto(n, a, Algun(2), s, c))
             => /\ UNCHANGED tablas
                /\ respuesta' = IF Valor(s) < 0 THEN R_StockNegativo
                                ELSE IF c \notin DOMAIN categorias
                                     THEN R_CategoriaNoEncontrada
                                ELSE IF ~categorias[c].activo THEN R_CategoriaInactiva
                                ELSE R_ProductoExiste]_vars

\* A creation was refused for its name while an inactive row holds a name.
C9_Witness ==
    /\ respuesta \in {R_CategoriaExiste, R_ProductoExiste}
    /\ \/ \E c \in DOMAIN categorias : ~categorias[c].activo
       \/ \E p \in DOMAIN productos : ~productos[p].activo

\* C10 as stated: no two categories have the same name and no two products
\* have the same name.
C10_NombresUnicos ==
    /\ \A c, d \in DOMAIN categorias :
          categorias[c].nombre = categorias[d].nombre => c = d
    /\ \A p, q \in DOMAIN productos :
          productos[p].nombre = productos[q].nombre => p = q

EnReposo == \A r \in DOMAIN peticiones : peticiones[r].pc = "libre"

\* C5 as stated: once every interleaved agregar_item_venta has completed, each
\* sale's total is the sum of precio_unitario * cantidad over its items, and
\* each product's stock is its initial stock minus the quantities of its items.
C5_SinActualizacionPerdida ==
    EnReposo =>
        /\ \A v \in DOMAIN ventas : ventas[v].total = Suma(Importe, ItemsDeVenta(v))
        /\ \A p \in DOMAIN productos :
              ~EsNulo(productos[p].stock) =>
                  Valor(productos[p].stock)
                      = Valor(libro[p].base) - Suma(Cantidad, ItemsDeProducto(p))

\* C6: all or nothing.  A step that inserts an item is the commit of one
\* request and writes, in that same step, the stock that request computed
\* (the stock it read minus its quantity) and the total it computed (the total
\* it read plus precio_unitario * cantidad); a step that inserts no item
\* changes no product and no sale; no step changes an item.
C6_TodoONada ==
    [][LET nuevos == DOMAIN items' \ DOMAIN items
       IN /\ \A i \in DOMAIN items : i \in DOMAIN items' /\ items'[i] = items[i]
          /\ nuevos = {} =>
                /\ \A p \in DOMAIN productos : productos'[p] = productos[p]
                /\ \A v \in DOMAIN ventas : ventas'[v] = ventas[v]
          /\ \A i \in nuevos :
                /\ nuevos = {i}
                /\ \E r \in DOMAIN peticiones :
                      /\ peticiones[r].pc = "commit"
                      /\ peticiones'[r] = Libre
                      /\ LET pt == peticiones[r]
                         IN /\ items'[i] = [venta_id |-> pt.venta_id,
                                            producto_id |-> pt.producto_id,
                                            cantidad |-> pt.cantidad,
                                            precio_unitario |-> pt.precio_unitario]
                            /\ pt.stock = pt.stock_leido - pt.cantidad
                            /\ productos'[pt.producto_id].stock = Algun(pt.stock)
                            /\ pt.total = pt.total_leido
                                              + pt.precio_unitario * pt.cantidad
                            /\ ventas'[pt.venta_id].total = pt.total]_vars

\* One request has committed its item while another, past its reads, is about
\* to commit.
C6_Witness ==
    /\ respuesta = R_OK
    /\ items # Vacia
    /\ \E r \in DOMAIN peticiones : peticiones[r].pc = "commit"

\* C12: crear_producto evaluates its checks in the order negative stock,
\* category not found, category inactive, name in use: its answer is the error
\* of the first of them that holds, whichever others hold with it, and then no
\* table changes; when none holds it answers 200 and the tables change by the
\* one product inserted with the values given.
C12_OrdenComprobaciones ==
    [][\A n \in Nombres, a \in BOOLEAN, s \in {Algun(-1), Algun(MaxStock)},
          c \in 1..MaxCategorias :
          crear_producto(n, a, Algun(2), s, c) =>
              LET stock_negativo == Valor(s) < 0
                  sin_categoria == c \notin DOMAIN categorias
                  inactiva == ~sin_categoria /\ ~categorias[c].activo
                  duplicado == \E p \in DOMAIN productos : productos[p].nombre = n
              IN /\ stock_negativo => respuesta' = R_StockNegativo
                 /\ (~stock_negativo /\ sin_categoria)
                        => respuesta' = R_CategoriaNoEncontrada
                 /\ (~stock_negativo /\ inactiva) => respuesta' = R_CategoriaInactiva
                 /\ (~stock_negativo /\ ~sin_categoria /\ ~inactiva /\ duplicado)
                        => respuesta' = R_ProductoExiste
                 /\ (stock_negativo \/ sin_categoria \/ inactiva \/ duplicado)
                        => UNCHANGED tablas
                 /\ ~(stock_negativo \/ sin_categoria \/ inactiva \/ duplicado)
                        => /\ respuesta' = R_OK
                           /\ UNCHANGED <<categorias, ventas, items>>
                           /\ \E q \in DOMAIN productos' \ DOMAIN productos :
                                 /\ DOMAIN productos' = DOMAIN productos \cup {q}
                                 /\ productos'[q] = [nombre |-> n, activo |-> a,
                                                     precio |-> Algun(2), stock |-> s,
                                                     categoria_id |-> c,
                                                     fecha_actualizacion |-> ahora]
                                 /\ \A p \in DOMAIN productos :
                                       productos'[p] = productos[p]]_vars

\* A creation was refused for its inactive category while every category is
\* inactive and every name is in use: the call also named an existing product.
C12_Witness ==
    /\ respuesta = R_CategoriaInactiva
    /\ categorias # Vacia
    /\ \A c \in DOMAIN categorias : ~categorias[c].activo
    /\ \A n \in Nombres : ExisteProducto(n)

HayProductoVendible ==
    \E q \in DOMAIN productos :
        /\ productos[q].activo
        /\ productos[q].categoria_id \in DOMAIN categorias
        /\ categorias[productos[q].categoria_id].activo

C15_CantidadPositiva ==
    /\ \A i \in DOMAIN items : items[i].cantidad > 0
    /\ \A v \in 1..(MaxVentas + 1), p \in 1..MaxProductos, c \in Cantidades :
          c <= 0 =>
              LET res == Resultado(Lecturas(v, p, c))
              IN /\ res.respuesta # R_OK
                 /\ <<res.productos, res.ventas, res.items>> = <<productos, ventas, items>>

\* C19 as stated: the total of every sale is >= 0 in every reachable state (a
\* sale is inserted with total 0).
C19_TotalNoNegativo ==
    \A v \in DOMAIN ventas : ventas[v].total >= 0

\* C18: with the handlers run one at a time, every product whose stock is set
\* has stock >= 0 in every reachable state; and crear_producto and
\* actualizar_producto given a negative stock answer "El stock no puede ser
\* negativo" and leave every table as it is, whatever their other arguments.
C18_StockSecuencial ==
    /\ \A p \in DOMAIN productos :
          ~EsNulo(productos[p].stock) => Valor(productos[p].stock) >= 0
    /\ \A a \in BOOLEAN, pr \in Precios, c \in 1..MaxCategorias :
          ~ENABLED (/\ crear_producto("Agua", a, pr, Algun(-1), c)
                    /\ ~(respuesta' = R_StockNegativo /\ UNCHANGED tablas))
    /\ \A p \in 1..MaxProductos, a \in BoolOpc, pr \in Precios :
          ~ENABLED (/\ actualizar_producto(p, Nulo, a, pr, Algun(-1))
                    /\ ~(respuesta' = R_StockNegativo /\ UNCHANGED tablas))

\* A negative stock was refused while a product that has been sold out (stock
\* 0, two units in items) is in the table.
C18_Witness ==
    /\ respuesta = R_StockNegativo
    /\ \E p \in DOMAIN productos :
          /\ productos[p].stock = Algun(0)
          /\ Suma(Cantidad, ItemsDeProducto(p)) = MaxStock

\* C16: eliminar_categoria(c) of an existing category answers 200 and leaves
\* exactly the other categories and the products of the other categories, each
\* as it was, with the sales and the items untouched; of an absent id it
\* answers "Categoria no encontrada" and changes no table.  And in every
\* reachable state the categoria_id of every product is the id of a category.
C16_BorradoEnCascada ==
    /\ [](\A p \in DOMAIN productos : productos[p].categoria_id \in DOMAIN categorias)
    /\ [][\A c \in 1..MaxCategorias :
            eliminar_categoria(c) =>
                IF c \in DOMAIN categorias
                THEN /\ respuesta' = R_OK
                     /\ DOMAIN categorias' = DOMAIN categorias \ {c}
                     /\ \A d \in DOMAIN categorias' : categorias'[d] = categorias[d]
                     /\ DOMAIN productos' =
                            {p \in DOMAIN productos : productos[p].categoria_id # c}
                     /\ \A p \in DOMAIN productos' : productos'[p] = productos[p]
                     /\ UNCHANGED <<ventas, items>>
                ELSE /\ respuesta' = R_CategoriaNoEncontrada
                     /\ UNCHANGED tablas]_vars

\* Category 1 and its product 1 are gone while category 2 and its product 2
\* are still there.
C16_Witness ==
    /\ DOMAIN categorias = {2}
    /\ DOMAIN productos = {2}
    /\ productos[2].categoria_id = 2
    /\ respuesta = R_OK

\* A product as eliminar_producto leaves it: in the table, inactive, price 0
\* and stock 0.
Retirado(p) ==
    /\ p \in DOMAIN productos
    /\ ~productos[p].activo
    /\ productos[p].precio = Algun(0)
    /\ productos[p].stock = Algun(0)

C14_CategoriaDelProductoActiva ==
    [][\A i \in DOMAIN items' \ DOMAIN items :
          LET p == items'[i].producto_id
          IN /\ p \in DOMAIN productos
             /\ productos[p].activo
             /\ productos[p].categoria_id \in DOMAIN categorias
             /\ categorias[productos[p].categoria_id].activo]_vars

\* C17 as stated: after every actualizar_categoria that answers 200 the
\* fecha_actualizacion of the category is the time of the call, and after every
\* actualizar_producto that answers 200 so is that of the product, whichever
\* parameters are given.
C17_FechaActualizacion ==
    [][/\ \A c \in 1..MaxCategorias, n \in NombresOpc, a \in BoolOpc :
             (actualizar_categoria(c, n, a) /\ respuesta' = R_OK)
             => categorias'[c].fecha_actualizacion = ahora
       /\ \A p \in 1..MaxProductos, a \in BoolOpc, pr \in {Nulo, Algun(3)} :
             (actualizar_producto(p, Nulo, a, pr, Nulo) /\ respuesta' = R_OK)
             => productos'[p].fecha_actualizacion = ahora]_vars

\* The part of C17 about products alone.
C17_FechaProducto ==
    [][\A p \in 1..MaxProductos, a \in BoolOpc, pr \in {Nulo, Algun(3)} :
          (actualizar_producto(p, Nulo, a, pr, Nulo) /\ respuesta' = R_OK)
          => productos'[p].fecha_actualizacion = ahora]_vars

\* The 404 answers of the queries.
NoEncontrado ==
    {R_SinCategorias, R_CategoriaNoEncontrada, R_SinProductos, R_SinProductosEntre,
     R_ProductoNoEncontrado, R_SinProductosCategoria, R_SinProductosEstado,
     R_SinProductosCriterios, R_SinVentas}

\* The answer res is a 404 when no key of the table matches and otherwise 200
\* with exactly the rows of the matching keys.
Exacta(res, tabla, coinciden) ==
    IF coinciden = {} THEN res.respuesta \in NoEncontrado
    ELSE /\ res.respuesta = R_OK
         /\ DOMAIN res.filas = coinciden
         /\ \A k \in coinciden : res.filas[k] = tabla[k]

\* The same for the sales, which are returned with their items nested.
ExactaVentas(res, coinciden) ==
    IF coinciden = {} THEN res.respuesta \in NoEncontrado
    ELSE /\ res.respuesta = R_OK
         /\ DOMAIN res.filas = coinciden
         /\ \A v \in coinciden :
               /\ res.filas[v].total = ventas[v].total
               /\ DOMAIN res.filas[v].items = ItemsDeVenta(v)
               /\ \A i \in ItemsDeVenta(v) :
                     /\ res.filas[v].items[i].cantidad = items[i].cantidad
                     /\ res.filas[v].items[i].precio_unitario = items[i].precio_unitario

\* The queries without a range: each is exact for its filter.
ConsultasExactas ==
    /\ Exacta(leer_categorias, categorias,
              {c \in DOMAIN categorias : categorias[c].activo})
    /\ \A c \in 1..(MaxCategorias + 1) :
          /\ Exacta(leer_categoria_id(c), categorias, {d \in DOMAIN categorias : d = c})
          /\ Exacta(leer_productos_por_categoria(c), productos,
                    {p \in DOMAIN productos : productos[p].categoria_id = c})
          /\ \A a \in BOOLEAN :
                Exacta(leer_productos_por_categoria_y_estado(c, a), productos,
                       {p \in DOMAIN productos :
                           productos[p].categoria_id = c /\ productos[p].activo = a})
    /\ \A a \in BOOLEAN :
          /\ Exacta(leer_categorias_activo(a), categorias,
                    {c \in DOMAIN categorias : categorias[c].activo = a})
          /\ Exacta(leer_productos_por_estado(a), productos,
                    {p \in DOMAIN productos : productos[p].activo = a})
    /\ Exacta(leer_productos, productos,
              {p \in DOMAIN productos :
                  /\ productos[p].activo
                  /\ \E c \in DOMAIN categorias :
                        c = productos[p].categoria_id /\ categorias[c].activo})
    /\ \A p \in 1..(MaxProductos + 1) :
          Exacta(leer_producto_por_id(p), productos, {q \in DOMAIN productos : q = p})
    /\ ExactaVentas(leer_ventas, DOMAIN ventas)
    /\ \A v \in 1..(MaxVentas + 1) :
          ExactaVentas(leer_ventas_id(v), {w \in DOMAIN ventas : w = v})

\* The products whose price, and whose stock, is set and within [mi, ma].
ConPrecioEntre(mi, ma) ==
    {p \in DOMAIN productos :
        /\ productos[p].precio # Nulo
        /\ mi <= productos[p].precio[1] /\ productos[p].precio[1] <= ma}
ConStockEntre(mi, ma) ==
    {p \in DOMAIN productos :
        /\ productos[p].stock # Nulo
        /\ mi <= productos[p].stock[1] /\ productos[p].stock[1] <= ma}

\* No query step changes a table.
ConsultasSinEfecto == ~ENABLED (Consultas /\ ~UNCHANGED tablas)

\* C20 as stated: every query leaves the tables as they are, answers 404
\* exactly when no row matches its filter and otherwise returns exactly the
\* matching rows; the two range queries included, whatever their bounds > 0.
C20_Original ==
    /\ ConsultasSinEfecto
    /\ ConsultasExactas
    /\ \A mi \in Rangos \ {0}, ma \in Rangos \ {0} :
          /\ Exacta(leer_productos_por_precio(mi, ma), productos, ConPrecioEntre(mi, ma))
          /\ Exacta(leer_productos_por_stock(mi, ma), productos, ConStockEntre(mi, ma))

\* C20 amended: every query leaves the tables as they are.  Every query but the
\* two range queries answers 404 exactly when no row matches its filter and
\* otherwise returns exactly the matching rows (the list of active products
\* being the active products of active categories).  A range query answers
\* 422 when a bound is not > 0, otherwise 400 when the minimum exceeds the
\* maximum, and otherwise is exact in the same way.
C20_Consultas ==
    /\ ConsultasSinEfecto
    /\ ConsultasExactas
    /\ \A mi \in Rangos, ma \in Rangos :
          /\ (mi <= 0 \/ ma <= 0) =>
                /\ leer_productos_por_precio(mi, ma).respuesta = R_NoValido
                /\ leer_productos_por_stock(mi, ma).respuesta = R_NoValido
          /\ (mi > 0 /\ ma > 0 /\ mi > ma) =>
                /\ leer_productos_por_precio(mi, ma).respuesta = R_PrecioMinimoMayor
                /\ leer_productos_por_stock(mi, ma).respuesta = R_StockMinimoMayor
          /\ (mi > 0 /\ mi <= ma) =>
                /\ Exacta(leer_productos_por_precio(mi, ma), productos,
                          ConPrecioEntre(mi, ma))
                /\ Exacta(leer_productos_por_stock(mi, ma), productos,
                          ConStockEntre(mi, ma))

\* A range query found nothing in a catalogue that has products, one of them
\* sold: the last answer is its 404.
C20_Witness ==
    /\ respuesta = R_SinProductosEntre
    /\ productos # Vacia
    /\ items # Vacia

\* The answers agregar_item_venta declares: 200 and its four HTTPExceptions.
Declaradas ==
    {R_OK, R_SinProductosActivos, R_VentaNoEncontrada, R_ProductoInactivo,
     R_StockInsuficiente}

\* C25 as stated: agregar_item_venta on an existing sale and an active product
\* whose stock or whose price is unset ends in a declared answer: 200, or one of
\* its declared errors with every table as it was.
C25_SinFalloNoDeclarado ==
    \A v \in DOMAIN ventas, p \in DOMAIN productos, c \in Cantidades :
        (/\ productos[p].activo
         /\ EsNulo(productos[p].stock) \/ EsNulo(productos[p].precio)) =>
            LET res == Resultado(Lecturas(v, p, c))
            IN /\ res.respuesta \in Declaradas
               /\ res.respuesta # R_OK =>
                     <<res.productos, res.ventas, res.items>> = <<productos, ventas, items>>

\* C23 as stated: the venta_id of every item is the id of a sale and its
\* producto_id is the id of a product, in every reachable state.
C23_IntegridadReferencial ==
    \A i \in DOMAIN items :
        /\ items[i].venta_id \in DOMAIN ventas
        /\ items[i].producto_id \in DOMAIN productos

\* The half of C23 about sales: the venta_id of every item is the id of a sale.
C23_VentaExiste ==
    \A i \in DOMAIN items : items[i].venta_id \in DOMAIN ventas

\* The errors the handlers raise themselves (their HTTPExceptions).
Errores ==
    {R_CategoriaExiste, R_CategoriaNoEncontrada, R_StockNegativo, R_CategoriaInactiva,
     R_ProductoExiste, R_ProductoNoEncontrado, R_SinProductosActivos,
     R_VentaNoEncontrada, R_ProductoInactivo, R_StockInsuficiente}

\* C22: every call that answers one of the handlers' errors leaves the
\* categories, the products, the sales and the items exactly as they were (so
\* whatever a handler would have answered before it, it answers after it: the
\* handlers read nothing but these tables).
C22_ErrorSinEfecto ==
    [][respuesta' \in Errores => UNCHANGED tablas]_vars

\* A creation was refused for its name with a category, a product, a sale and
\* an item in the tables.
C22_Witness ==
    /\ respuesta = R_ProductoExiste
    /\ categorias # Vacia
    /\ ventas # Vacia
    /\ items # Vacia

\* The value of a field after a partial update: the one given, or the old one.
Parcial(dado, anterior) == IF dado = Nulo THEN anterior ELSE dado[1]

\* C21: every actualizar_categoria on an existing category leaves its nombre
\* and activo at the value given when one is given and as they were otherwise,
\* and changes no other category, no product, no sale and no item; every
\* actualizar_producto on an existing product with a stock that is not
\* negative does the same for nombre, activo, precio and stock, leaves its
\* categoria_id as it was, and changes no other product, no category, no sale
\* and no item.  (fecha_actualizacion is left out of the comparison.)
C21_ActualizacionParcial ==
    /\ \A c \in DOMAIN categorias, n \in NombresOpc, a \in BoolOpc :
          ~ENABLED (/\ actualizar_categoria(c, n, a)
                    /\ ~(/\ DOMAIN categorias' = DOMAIN categorias
                         /\ categorias'[c].nombre = Parcial(n, categorias[c].nombre)
                         /\ categorias'[c].activo = Parcial(a, categorias[c].activo)
                         /\ \A d \in DOMAIN categorias \ {c} :
                               categorias'[d] = categorias[d]
                         /\ UNCHANGED <<productos, ventas, items>>))
    /\ \A p \in DOMAIN productos, n \in NombresOpc, a \in BoolOpc,
          pr \in Precios, s \in {Nulo, Algun(0), Algun(MaxStock)} :
          ~ENABLED (/\ actualizar_producto(p, n, a, pr, s)
                    /\ ~(/\ DOMAIN productos' = DOMAIN productos
                         /\ productos'[p].nombre = Parcial(n, productos[p].nombre)
                         /\ productos'[p].activo = Parcial(a, productos[p].activo)
                         /\ productos'[p].precio =
                                IF pr = Nulo THEN productos[p].precio ELSE pr
                         /\ productos'[p].stock =
                                IF s = Nulo THEN productos[p].stock ELSE s
                         /\ productos'[p].categoria_id = productos[p].categoria_id
                         /\ \A q \in DOMAIN productos \ {p} :
                               productos'[q] = productos[q]
                         /\ UNCHANGED <<categorias, ventas, items>>))

\* A product whose price alone was changed, and a category whose name alone
\* was changed after it had been deactivated.
C21_Witness ==
    /\ \E p \in DOMAIN productos :
          /\ productos[p].precio = Algun(3)
          /\ productos[p].activo
          /\ productos[p].stock = Algun(MaxStock)
    /\ \E c \in DOMAIN categorias :
          /\ categorias[c].nombre = "Snacks"
          /\ ~categorias[c].activo

\* C24 as stated: with crear_categoria (and crear_producto) requests served
\* side by side, a row is inserted only under a name that no row of its table
\* has: at most one row is persisted with a name.
C24_AltaUnica ==
    [][/\ \A c \in DOMAIN categorias' \ DOMAIN categorias :
             ~\E d \in DOMAIN categorias : categorias[d].nombre = categorias'[c].nombre
       /\ \A p \in DOMAIN productos' \ DOMAIN productos :
             ~\E q \in DOMAIN productos : productos[q].nombre = productos'[p].nombre]_vars
====
